---- MODULE Spec2Model ----
(***************************************************************************)
(* State-machine model of page-speed-social-share:                         *)
(*   - the useMobileShare hook (src/src/hooks/useMobileShare.tsx): image   *)
(*     conversion effect, availability effect and the share() callback;    *)
(*   - the SocialShare component (src/src/core/social-share.tsx): preload  *)
(*     effect and the affordance decision of the inline and sticky bars.   *)
(* Strings are modelled as sequences of tokens (each token a TLA+ string), *)
(* so that join/split and the data-URL parsing do what the code does.      *)
(***************************************************************************)
EXTENDS Integers, Sequences, FiniteSets, TLC

(***************************************************************************)
(* Bounds of the model                                                     *)
(***************************************************************************)
MaxRenders == 1
MaxShares == 2

(***************************************************************************)
(* URL strings.  "S3" stands for the literal allow-listed bucket prefix,   *)
(* "," is the comma character.                                             *)
(***************************************************************************)
UrlA == <<"a">>
UrlB == <<"b">>
UrlComma == <<"a", ",", "b">>
Urls == {UrlA, UrlB, UrlComma}

\* the lists the caller passes as imageUrls
UrlLists == {<<>>, <<UrlA>>, <<UrlB>>, <<UrlA, UrlB>>, <<UrlComma>>}

\* params.imageUrls: undefined (def = FALSE) or a list of URL strings
ImageUrlsValues == {[def |-> FALSE, v |-> <<>>]} \cup {[def |-> TRUE, v |-> l] : l \in UrlLists}

(***************************************************************************)
(* Array.prototype.join(",") and String.prototype.split(",")               *)
(***************************************************************************)
RECURSIVE Join(_)
Join(list) ==
  IF Len(list) = 0 THEN <<>>
  ELSE IF Len(list) = 1 THEN list[1]
  ELSE list[1] \o <<",">> \o Join(Tail(list))

RECURSIVE SplitAcc(_, _, _, _)
SplitAcc(s, i, cur, acc) ==
  IF i > Len(s) THEN Append(acc, cur)
  ELSE IF s[i] = "," THEN SplitAcc(s, i + 1, <<>>, Append(acc, cur))
  ELSE SplitAcc(s, i + 1, Append(cur, s[i]), acc)

Split(s) == SplitAcc(s, 1, <<>>, <<>>)

\* const imageUrlsKey = params.imageUrls?.join(",") ?? ""
imageUrlsKey(imageUrls) == IF imageUrls.def THEN Join(imageUrls.v) ELSE <<>>

\* variant: the flag is not consulted
attachmentsEnabledIgnored(attachImages) == TRUE

\* const attachmentsEnabled = params.attachImages ?? true
attachmentsEnabled(attachImages) == attachImages

(***************************************************************************)
(* Strings produced by urlToBase64.  A value is [s, src]: s the token      *)
(* string, src the URL it was acquired from (history, not program state).  *)
(***************************************************************************)
\* reader.result for a blob whose type is a plain MIME type
DataUrlOk == <<"data:", "image/jpeg", ";", "base64", ",", "BODY">>
\* blob type "image/jpeg, image/png": a comma before the first semicolon
DataUrlNoMime == <<"data:", "image/jpeg", ",", "image/png", ";", "base64", ",", "BODY">>
\* blob type "image/jpeg;x=a,b": the text after the first comma is not base64
DataUrlBadB64 == <<"data:", "image/jpeg", ";", "x=a", ",", "b", ";", "base64", ",", "BODY">>

(***************************************************************************)
(* fetchBlob.  net is what the network does for this call:                 *)
(*   first    - the first request: "ok", "notok" (response.ok false),      *)
(*              "throw" (fetch rejects), "blobfail" (response.blob()       *)
(*              rejects);                                                  *)
(*   fallback - the plain fetch(url): "ok", "throw", "blobfail";           *)
(*   size     - size of the blob obtained: "zero" or "nonzero";            *)
(*   reader   - what FileReader.readAsDataURL yields: "ok", "nomime"       *)
(*              (see the data URLs above) or "err" (onerror).              *)
(***************************************************************************)
NetOutcomes ==
  [first : {"ok", "notok", "throw", "blobfail"},
   fallback : {"ok", "throw", "blobfail"},
   size : {"zero", "nonzero"},
   reader : {"ok", "nomime", "err"}]

\* url.startsWith("https://toastability-production.s3.amazonaws.com")
isAllowedS3Url(url) == Len(url) > 0 /\ url[1] = "S3"

\* Result: rejected/error when the promise rejects, otherwise the blob's
\* origin; requests lists the fetch() calls issued, in order.
\* "return response.blob()" is not awaited inside the try blocks, so a
\* rejected blob() is not caught by them.
fetchBlob(url, net) ==
  LET firstReq == IF isAllowedS3Url(url) THEN "proxy" ELSE "direct"
      firstThrows == \/ net.first = "throw"
                     \/ isAllowedS3Url(url) /\ net.first = "notok"
  IN  IF ~firstThrows
      THEN IF net.first = "blobfail"
           THEN [rejected |-> TRUE, error |-> "first-blob", from |-> "none",
                 requests |-> <<firstReq>>]
           ELSE [rejected |-> FALSE, error |-> "none", from |-> "first",
                 requests |-> <<firstReq>>]
      ELSE IF net.fallback = "throw"
           THEN [rejected |-> TRUE, error |-> "first", from |-> "none",
                 requests |-> <<firstReq, "plain">>]
           ELSE IF net.fallback = "blobfail"
           THEN [rejected |-> TRUE, error |-> "fallback-blob", from |-> "none",
                 requests |-> <<firstReq, "plain">>]
           ELSE [rejected |-> FALSE, error |-> "none", from |-> "fallback",
                 requests |-> <<firstReq, "plain">>]

\* variant: the size of the blob is not tested
urlToBase64NoSizeCheck(u, net) ==
  LET r == fetchBlob(u, net)
  IN  [s |-> IF r.rejected THEN <<>>
             ELSE CASE net.reader = "ok" -> DataUrlOk
                    [] net.reader = "nomime" -> DataUrlNoMime
                    [] net.reader = "err" -> <<>>,
       src |-> u,
       rejected |-> FALSE]

\* variant: no try/catch around the body, a rejection of fetchBlob passes on
urlToBase64NoCatch(u, net) ==
  LET r == fetchBlob(u, net)
  IN  [s |-> IF r.rejected THEN <<>>
             ELSE IF net.size = "zero" THEN <<>>
             ELSE CASE net.reader = "ok" -> DataUrlOk
                    [] net.reader = "nomime" -> DataUrlNoMime
                    [] net.reader = "err" -> <<>>,
       src |-> u,
       rejected |-> r.rejected]

\* urlToBase64: "" when fetchBlob rejects (the catch block), when the blob
\* has size 0 and on a reader error; otherwise the reader's data URL.
\* rejected: the promise of urlToBase64 itself rejects, which the catch
\* block rules out.
urlToBase64(u, net) ==
  LET r == fetchBlob(u, net)
  IN  [s |-> IF r.rejected THEN <<>>
             ELSE IF net.size = "zero" THEN <<>>
             ELSE CASE net.reader = "ok" -> DataUrlOk
                    [] net.reader = "nomime" -> DataUrlNoMime
                    [] net.reader = "err" -> <<>>,
       src |-> u,
       rejected |-> FALSE]

\* converted.filter(Boolean): keeps the non-empty strings, in order
FilterBoolean(list) == SelectSeq(list, LAMBDA x : Len(x.s) > 0)

(***************************************************************************)
(* dataURLtoFile                                                           *)
(***************************************************************************)
\* position of the first token equal to tok at or after i, 0 when none
RECURSIVE IndexFrom(_, _, _)
IndexFrom(s, tok, i) ==
  IF i > Len(s) THEN 0
  ELSE IF s[i] = tok THEN i
  ELSE IndexFrom(s, tok, i + 1)

\* arr[0].match(/:(.*?);/)?.[1] : the text between the first ":" (the one
\* ending the "data:" token) and the first ";" after it; <<>> when no match
MimeOf(hdr) ==
  LET c == IndexFrom(hdr, "data:", 1)
      e == IF c = 0 THEN 0 ELSE IndexFrom(hdr, ";", c + 1)
  IN  IF c = 0 \/ e = 0 THEN <<>> ELSE SubSeq(hdr, c + 1, e - 1)

Base64Tokens == {"BODY"}

\* atob throws on text that is not base64 (and on a missing arr[1])
AtobThrows(arr) ==
  \/ Len(arr) < 2
  \/ \E i \in 1..Len(arr[2]) : arr[2][i] \notin Base64Tokens

NoFile == [ok |-> FALSE, type |-> <<>>, src |-> <<>>]

\* variant: a header without MIME type is accepted
dataURLtoFileNoMimeCheck(dataurl) ==
  IF Len(dataurl.s) = 0 THEN NoFile
  ELSE LET arr == Split(dataurl.s)
           mime == MimeOf(arr[1])
       IN  IF AtobThrows(arr) THEN NoFile
           ELSE [ok |-> TRUE, type |-> mime, src |-> dataurl.src]

\* variant: atob is not guarded
dataURLtoFileNoCatch(dataurl) ==
  IF Len(dataurl.s) = 0 THEN NoFile
  ELSE LET arr == Split(dataurl.s)
           mime == MimeOf(arr[1])
       IN  IF Len(mime) = 0 THEN NoFile
           ELSE [ok |-> TRUE, type |-> mime, src |-> dataurl.src]

\* undefined (NoFile) for the empty string, for a header without MIME type
\* and when atob throws; otherwise the File
dataURLtoFile(dataurl) ==
  IF Len(dataurl.s) = 0 THEN NoFile
  ELSE LET arr == Split(dataurl.s)
           mime == MimeOf(arr[1])
       IN  IF Len(mime) = 0 THEN NoFile
           ELSE IF AtobThrows(arr) THEN NoFile
           ELSE [ok |-> TRUE, type |-> mime, src |-> dataurl.src]

\* image.startsWith("data:")
StartsWithData(image) == Len(image.s) > 0 /\ image.s[1] = "data:"

\* the files of share(): map each image to a File or null, filter(Boolean)
FilesOf(images) ==
  LET mapped == [i \in 1..Len(images) |->
                   IF StartsWithData(images[i]) THEN dataURLtoFile(images[i]) ELSE NoFile]
  IN  SelectSeq(mapped, LAMBDA f : f.ok)

(***************************************************************************)
(* State                                                                   *)
(***************************************************************************)
VARIABLES
  phase,         \* "rendered" (first render done, effects pending), "mounted", "unmounted"
  attachImages,  \* params.attachImages
  imageUrls,     \* params.imageUrls
  nav,           \* the host: [share |-> navigator.share is a function, canShare |-> navigator.canShare exists]
  error,         \* useState error ("null" for null)
  canShare,      \* useState canShare
  base64Images,  \* useState base64Images
  tasks,         \* the convertImages runs started so far, oldest first
  curTask,       \* index in tasks of the run owned by the latest effect, 0 if none
  renders,       \* number of re-renders with new params so far
  calls,         \* the share() invocations so far, oldest first
  lastCall,      \* history: what the share() that finished last did
  fetches        \* number of urlToBase64 calls started so far, each issuing its first fetch()

\* The SocialShare component around the hook.  It passes imgUrls to the hook
\* as imageUrls and !disableImageAttachments as attachImages.
VARIABLES
  isTouch,         \* useIsTouchDevice().isTouchDevice
  screenType,      \* useScreen().screenType
  variant,         \* prop variant
  platformsConfig, \* prop platformsConfig as passed by the caller
  imagesLoaded,    \* useState imagesLoaded
  preloads         \* the loadImages runs started so far: [left, isMounted, finished]

uiVars == <<isTouch, screenType, variant, platformsConfig, imagesLoaded, preloads>>

VARIABLES
  paramsImages,  \* params.images: base64 strings the caller has converted itself
  acq,           \* one image taken through fetchBlob, urlToBase64, the commit and share() on its own
  portal         \* the sticky bars of the page and their portal container:
                 \* [attached, gen, persistent, bars]

hookVars == <<phase, attachImages, imageUrls, nav, error, canShare, base64Images,
              tasks, curTask, renders, calls, lastCall, fetches>>

\* The flags every platform has when the caller gives none.
\* A platformsConfig prop is [given, v]: the keys the caller supplies and
\* their values (v is read at the given keys only).
DefaultPlatforms ==
  [x |-> TRUE, facebook |-> TRUE, pinterest |-> TRUE, linkedIn |-> TRUE,
   email |-> FALSE, nativeTools |-> TRUE]

PlatformKeys == {"x", "facebook", "pinterest", "linkedIn", "email", "nativeTools"}

\* the prop left out
NoPlatformsConfig == [given |-> {}, v |-> DefaultPlatforms]

Null == "null"
UnsupportedMsg == "Sharing this content is not supported on this device."
DefaultMsg == "Share failed"
PlatformMsg == "platform rejection"
CanShareThrowMsg == "canShare threw"
NotAFunctionMsg == "navigator.share is not a function"

\* a finished call keeps nothing
DoneCall == [pc |-> "done", tier |-> "none", built |-> 0, files |-> <<>>]
NoCall == [tier |-> "none", built |-> 0, files |-> <<>>, invoked |-> 0, outcome |-> "no call"]

Pending == [done |-> FALSE, val |-> [s |-> <<>>, src |-> <<>>, rejected |-> FALSE]]

\* the strings Promise.all resolves with
Converted(t) == [i \in 1..Len(t.res) |-> [s |-> t.res[i].val.s, src |-> t.res[i].val.src]]

\* Promise.all rejects when one of the urlToBase64 promises does
AnyRejected(t) == \E i \in 1..Len(t.res) : t.res[i].val.rejected

\* what a run that is not cancelled hands to setBase64Images:
\* converted.filter(Boolean), or [] in the catch block
ConvertImagesResult(t) ==
  IF AnyRejected(t) THEN <<>> ELSE FilterBoolean(Converted(t))
AllDone(t) == \A i \in 1..Len(t.res) : t.res[i].done

(***************************************************************************)
(* The conversion effect: cleanup of the previous run, then the body.      *)
(***************************************************************************)
\* return () => { cancelled = true }
Cleanup(ts, cur) ==
  IF cur = 0 THEN ts ELSE [ts EXCEPT ![cur].cancelled = TRUE]

\* the effect body, run with the deps (attach, key) of the new render
\* (every urlToBase64 call issues its first fetch synchronously)
ConversionEffect(attach, key, ts) ==
  IF ~attach \/ Len(key) = 0
  THEN [images |-> <<>>, reset |-> TRUE, tasks |-> ts, cur |-> 0, issued |-> 0]
  ELSE LET urls == Split(key)
           t == [urls |-> urls,
                 res |-> [i \in 1..Len(urls) |-> Pending],
                 cancelled |-> FALSE,
                 committed |-> FALSE,
                 \* history: the run has called setBase64Images
                 wrote |-> FALSE]
       IN  [images |-> <<>>, reset |-> FALSE, tasks |-> Append(ts, t),
            cur |-> Len(ts) + 1, issued |-> Len(urls)]

(***************************************************************************)
(* Initial state: the first render of the hook is done, no effect has run. *)
(***************************************************************************)
\* variant: the effect tests navigator.canShare instead of navigator.share
AvailabilityEffectOnCanShare(cs) == IF nav.canShare THEN TRUE ELSE cs

\* the availability effect: setCanShare(true) when navigator.share is a
\* function; cs is the current value of the canShare state
AvailabilityEffect(cs) == IF nav.share THEN TRUE ELSE cs

HookInit ==
  /\ phase = "rendered"
  /\ attachImages \in BOOLEAN
  /\ imageUrls \in ImageUrlsValues
  /\ nav \in [share : BOOLEAN, canShare : BOOLEAN]
  /\ error = Null
  /\ canShare = FALSE
  /\ base64Images = <<>>
  /\ tasks = <<>>
  /\ curTask = 0
  /\ renders = 0
  /\ calls = <<>>
  /\ lastCall = NoCall
  /\ fetches = 0

\* params.images left out
NoImagesParam == paramsImages = <<>>

\* no separate call of fetchBlob or urlToBase64
NoAcquisition == acq = [pc |-> "none"]

\* sticky bars mounted at most, and mounts of a sticky bar at most
MaxBars == 3
MaxMounts == 4

\* a bar that is not mounted; container is the element its effect holds
\* (elements are numbered in the order of their creation, 0 is none)
NoBar == [mounted |-> FALSE, container |-> 0]

\* a page without sticky bar and without portal container
NoStickyBars ==
  portal = [attached |-> FALSE, gen |-> 0, persistent |-> FALSE, mounts |-> 0,
            bars |-> [b \in 1..MaxBars |-> NoBar]]

\* the hook used on its own: no component around it
NoComponent ==
  /\ isTouch = FALSE
  /\ screenType = "DESKTOP"
  /\ variant = "standard"
  /\ platformsConfig = NoPlatformsConfig
  /\ imagesLoaded = FALSE
  /\ preloads = <<>>

(***************************************************************************)
(* The effects of the first render: the conversion effect and the          *)
(* availability effect, flushed together.                                  *)
(***************************************************************************)
MountEffects ==
  /\ phase = "rendered"
  /\ LET e == ConversionEffect(attachmentsEnabled(attachImages),
                               imageUrlsKey(imageUrls), tasks)
     IN  /\ base64Images' = IF e.reset THEN e.images ELSE base64Images
         /\ tasks' = e.tasks
         /\ curTask' = e.cur
         /\ fetches' = fetches + e.issued
  /\ canShare' = AvailabilityEffect(canShare)
  /\ phase' = "mounted"
  /\ UNCHANGED <<attachImages, imageUrls, nav, error, renders, calls, lastCall>>

(***************************************************************************)
(* A re-render with new params.  The conversion effect re-runs (cleanup,   *)
(* then body) only when a dependency [attachmentsEnabled, imageUrlsKey]    *)
(* differs from the previous render's.                                     *)
(***************************************************************************)
\* variant: the effect depends on the imageUrls array itself, which is a
\* new instance on every render
RerenderByReference(newAttach, newUrls) ==
  /\ phase = "mounted"
  /\ renders < MaxRenders
  /\ renders' = renders + 1
  /\ attachImages' = newAttach
  /\ imageUrls' = newUrls
  /\ LET e == ConversionEffect(attachmentsEnabled(newAttach),
                               imageUrlsKey(newUrls),
                               Cleanup(tasks, curTask))
     IN  /\ base64Images' = IF e.reset THEN e.images ELSE base64Images
         /\ tasks' = e.tasks
         /\ curTask' = e.cur
         /\ fetches' = fetches + e.issued
  /\ UNCHANGED <<phase, nav, error, canShare, calls, lastCall>>

Rerender(newAttach, newUrls) ==
  /\ phase = "mounted"
  /\ renders < MaxRenders
  /\ renders' = renders + 1
  /\ attachImages' = newAttach
  /\ imageUrls' = newUrls
  /\ IF /\ attachmentsEnabled(newAttach) = attachmentsEnabled(attachImages)
        /\ imageUrlsKey(newUrls) = imageUrlsKey(imageUrls)
     THEN UNCHANGED <<base64Images, tasks, curTask, fetches>>
     ELSE LET e == ConversionEffect(attachmentsEnabled(newAttach),
                                    imageUrlsKey(newUrls),
                                    Cleanup(tasks, curTask))
          IN  /\ base64Images' = IF e.reset THEN e.images ELSE base64Images
              /\ tasks' = e.tasks
              /\ curTask' = e.cur
              /\ fetches' = fetches + e.issued
  /\ UNCHANGED <<phase, nav, error, canShare, calls, lastCall>>

\* unmount: the effect cleanup runs, state is gone
Unmount ==
  /\ phase = "mounted"
  /\ phase' = "unmounted"
  /\ tasks' = Cleanup(tasks, curTask)
  /\ UNCHANGED <<attachImages, imageUrls, nav, error, canShare, base64Images,
                 curTask, renders, calls, lastCall, fetches>>

(***************************************************************************)
(* convertImages: the urlToBase64 calls of one run settle one by one, in   *)
(* any order; when all have, the continuation after Promise.all runs.      *)
(***************************************************************************)
\* the URLs the effect can hand to urlToBase64
AcquirableUrls ==
  UNION {{Split(Join(l))[i] : i \in 1..Len(Split(Join(l)))} : l \in UrlLists \ {<<>>}}

\* what urlToBase64(u) can resolve to, over everything the network can do
UrlToBase64Table ==
  [u \in AcquirableUrls |-> {urlToBase64(u, net) : net \in NetOutcomes}]

UrlToBase64Results(u) == UrlToBase64Table[u]

ConvertOne(t, i, val) ==
  /\ t \in 1..Len(tasks)
  /\ i \in 1..Len(tasks[t].res)
  /\ ~tasks[t].committed
  /\ ~tasks[t].res[i].done
  /\ val \in UrlToBase64Results(tasks[t].urls[i])
  /\ tasks' = [tasks EXCEPT ![t].res[i] = [done |-> TRUE, val |-> val]]
  /\ UNCHANGED <<phase, attachImages, imageUrls, nav, error, canShare, base64Images,
                 curTask, renders, calls, lastCall, fetches>>

\* variant: the cancelled flag is not tested
CommitWritesAlways(t) == TRUE

\* if (!cancelled) setBase64Images(converted.filter(Boolean))
CommitWrites(t) == ~t.cancelled

\* variant: the files of a share that is awaiting are the live state, so a
\* commit changes them
CommitAltersPayload(t) ==
  /\ t \in 1..Len(tasks)
  /\ ~tasks[t].committed
  /\ AllDone(tasks[t])
  /\ tasks' = [tasks EXCEPT ![t].committed = TRUE, ![t].urls = <<>>, ![t].res = <<>>,
                            ![t].wrote = CommitWrites(tasks[t])]
  /\ IF CommitWrites(tasks[t])
     THEN /\ base64Images' = ConvertImagesResult(tasks[t])
          /\ calls' = [c \in 1..Len(calls) |->
                         IF calls[c].pc = "awaiting"
                         THEN [calls[c] EXCEPT !.files = FilesOf(ConvertImagesResult(tasks[t]))]
                         ELSE calls[c]]
     ELSE UNCHANGED <<base64Images, calls>>
  /\ UNCHANGED <<phase, attachImages, imageUrls, nav, error, canShare,
                 curTask, renders, lastCall, fetches>>

Commit(t) ==
  /\ t \in 1..Len(tasks)
  /\ ~tasks[t].committed
  /\ AllDone(tasks[t])
  \* the run is over: its closure (urls, promise results) is dropped
  /\ tasks' = [tasks EXCEPT ![t].committed = TRUE, ![t].urls = <<>>, ![t].res = <<>>,
                            ![t].wrote = CommitWrites(tasks[t])]
  /\ IF CommitWrites(tasks[t])
     THEN base64Images' = ConvertImagesResult(tasks[t])
     ELSE UNCHANGED base64Images
  /\ UNCHANGED <<phase, attachImages, imageUrls, nav, error, canShare,
                 curTask, renders, calls, lastCall, fetches>>

(***************************************************************************)
(* share()                                                                 *)
(***************************************************************************)
\* errors that can reach the catch block of share()
AbortErr == [name |-> "AbortError", message |-> "aborted"]
PlatformErr == [name |-> "NotAllowedError", message |-> PlatformMsg]
NoMessageErr == [name |-> "Error", message |-> Null]
CanShareErr == [name |-> "Error", message |-> CanShareThrowMsg]
NotAFunctionErr == [name |-> "TypeError", message |-> NotAFunctionMsg]
UnsupportedErr == [name |-> "Error", message |-> UnsupportedMsg]

\* variant: every caught error is recorded, AbortError included
CatchShareRecordsAbort(err, cur) ==
  IF err.message = Null THEN DefaultMsg ELSE err.message

\* variant: a cancelled share clears the error
CatchShareClearsOnAbort(err, cur) ==
  IF err.name # "AbortError"
  THEN IF err.message = Null THEN DefaultMsg ELSE err.message
  ELSE Null

\* variant: no default message
CatchShareNoDefault(err, cur) ==
  IF err.name # "AbortError" THEN err.message ELSE cur

\* catch (err) { if (err?.name !== "AbortError") setError(err?.message ?? "Share failed") }
\* cur is the current value of the error state; the result is its new value
CatchShare(err, cur) ==
  IF err.name # "AbortError"
  THEN IF err.message = Null THEN DefaultMsg ELSE err.message
  ELSE cur

\* setError on an unmounted hook changes nothing
SetErrorTo(v) == IF phase = "unmounted" THEN error ELSE v

\* variant: navigator.share is called without testing that it is a function
ShareTierNoTypeCheck(qF, qB) ==
  IF qF = "true" THEN "files"
  ELSE IF qF = "throw" THEN "none"
  ELSE IF qB = "true" THEN "basic"
  ELSE IF qB = "throw" THEN "none"
  ELSE "bare"

\* variant: no second attempt once canShare has refused the files
ShareTierNoFallback(qF, qB) ==
  IF qF = "true" THEN "files"
  ELSE IF qF \in {"throw", "false"} THEN "none"
  ELSE IF qB = "true" THEN "basic"
  ELSE IF qB = "throw" THEN "none"
  ELSE IF nav.share THEN "bare"
  ELSE "none"

\* Which navigator.share call share() reaches: "files" (the payload with
\* files), "basic" (without files, after a positive canShare), "bare"
\* (without files and without a positive canShare) or "none" (it throws
\* before).  qF and qB are the answers of navigator.canShare for the payload
\* with and without files, "na" when that query is not made.
ShareTier(qF, qB) ==
  IF qF = "true" THEN "files"
  ELSE IF qF = "throw" THEN "none"
  ELSE IF qB = "true" THEN "basic"
  ELSE IF qB = "throw" THEN "none"
  ELSE IF nav.share THEN "bare"
  ELSE "none"

\* The synchronous part of share() up to its await of navigator.share, or
\* to its end when it throws before.  images is the base64Images of the
\* render whose share callback is called; csF and csB are what
\* navigator.canShare answers ("true", "false", "throw") for the payload
\* with files and for the payload without files.
ShareAttempt(attach, images, csF, csB) ==
  LET files == IF attach /\ Len(images) > 0 THEN FilesOf(images) ELSE <<>>
      askFiles == Len(files) > 0 /\ nav.canShare
      askBasic == nav.canShare /\ ~(askFiles /\ csF \in {"true", "throw"})
      qF == IF askFiles THEN csF ELSE "na"
      qB == IF askBasic THEN csB ELSE "na"
      tier == ShareTier(qF, qB)
      thrown == IF qF = "throw" \/ qB = "throw" THEN CanShareErr
                ELSE IF tier = "none" THEN UnsupportedErr
                ELSE NotAFunctionErr
  IN  [tier |-> tier,
       \* number of File objects built from the images
       built |-> Len(files),
       \* the files of the payload passed to navigator.share
       files |-> IF tier = "files" THEN files ELSE <<>>,
       \* navigator.canShare was asked about the payload with files
       queriedFiles |-> askFiles,
       \* navigator.share(...) is reached and is callable
       invoked |-> tier # "none" /\ nav.share,
       thrown |-> thrown]

ShareCall(csF, csB) ==
  /\ phase \in {"rendered", "mounted"}
  /\ Len(calls) < MaxShares
  /\ LET a == ShareAttempt(attachmentsEnabled(attachImages), base64Images, csF, csB)
     IN  IF a.invoked
         THEN /\ calls' = Append(calls, [pc |-> "awaiting", tier |-> a.tier,
                                         built |-> a.built, files |-> a.files])
              /\ UNCHANGED <<error, lastCall>>
         ELSE /\ calls' = Append(calls, DoneCall)
              /\ error' = SetErrorTo(CatchShare(a.thrown, error))
              /\ lastCall' = [tier |-> a.tier, built |-> a.built, files |-> a.files,
                              invoked |-> 0, outcome |-> a.thrown.message]
  /\ UNCHANGED <<phase, attachImages, imageUrls, nav, canShare, base64Images,
                 tasks, curTask, renders, fetches>>

\* the promise of navigator.share settles: it resolves, or rejects with err
ShareOutcomes == {"resolve", AbortErr.message, PlatformErr.message, "no message"}

ErrOf(outcome) ==
  CASE outcome = AbortErr.message -> AbortErr
    [] outcome = PlatformErr.message -> PlatformErr
    [] outcome = "no message" -> NoMessageErr

\* variant: a rejected share with files is followed by a share without them
ShareSettleRetries(c, outcome) ==
  /\ c \in 1..Len(calls)
  /\ calls[c].pc = "awaiting"
  /\ IF calls[c].tier = "files" /\ outcome # "resolve"
     THEN /\ calls' = [calls EXCEPT ![c] = [pc |-> "awaiting", tier |-> "basic",
                                            built |-> calls[c].built, files |-> <<>>]]
          /\ UNCHANGED <<lastCall, error>>
     ELSE /\ calls' = [calls EXCEPT ![c] = DoneCall]
          /\ lastCall' = [tier |-> calls[c].tier, built |-> calls[c].built,
                          files |-> calls[c].files, invoked |-> 1, outcome |-> outcome]
          /\ error' = IF outcome = "resolve" THEN error
                      ELSE SetErrorTo(CatchShare(ErrOf(outcome), error))
  /\ UNCHANGED <<phase, attachImages, imageUrls, nav, canShare, base64Images,
                 tasks, curTask, renders, fetches>>

ShareSettle(c, outcome) ==
  /\ c \in 1..Len(calls)
  /\ calls[c].pc = "awaiting"
  /\ calls' = [calls EXCEPT ![c] = DoneCall]
  /\ lastCall' = [tier |-> calls[c].tier, built |-> calls[c].built,
                  files |-> calls[c].files, invoked |-> 1, outcome |-> outcome]
  /\ error' = IF outcome = "resolve" THEN error
              ELSE SetErrorTo(CatchShare(ErrOf(outcome), error))
  /\ UNCHANGED <<phase, attachImages, imageUrls, nav, canShare, base64Images,
                 tasks, curTask, renders, fetches>>

(***************************************************************************)
(* Specification of the hook                                               *)
(***************************************************************************)
CanShareAnswers == {"true", "false", "throw"}

HookNext ==
  \/ MountEffects /\ UNCHANGED <<uiVars, paramsImages, acq, portal>>
  \/ \E a \in BOOLEAN, u \in ImageUrlsValues : Rerender(a, u) /\ UNCHANGED <<uiVars, paramsImages, acq, portal>>
  \/ Unmount /\ UNCHANGED <<uiVars, paramsImages, acq, portal>>
  \/ \E t \in 1..Len(tasks) : \E i \in 1..Len(tasks[t].res) :
        \E val \in UrlToBase64Results(tasks[t].urls[i]) :
          ConvertOne(t, i, val) /\ UNCHANGED <<uiVars, paramsImages, acq, portal>>
  \/ \E t \in 1..Len(tasks) : Commit(t) /\ UNCHANGED <<uiVars, paramsImages, acq, portal>>
  \/ \E csF \in CanShareAnswers, csB \in CanShareAnswers :
        ShareCall(csF, csB) /\ UNCHANGED <<uiVars, paramsImages, acq, portal>>
  \/ \E c \in 1..Len(calls) : \E o \in ShareOutcomes :
        ShareSettle(c, o) /\ UNCHANGED <<uiVars, paramsImages, acq, portal>>

vars == <<hookVars, uiVars, paramsImages, acq, portal>>

Init == HookInit /\ NoComponent /\ NoImagesParam /\ NoAcquisition /\ NoStickyBars
Next == HookNext
Spec == Init /\ [][Next]_vars

(***************************************************************************)
(* The SocialShare component of core/social-share.tsx: what it renders.    *)
(* It takes no platform flags.                                             *)
(***************************************************************************)
ScreenTypes == {"MOBILE", "TABLET", "DESKTOP", "OTHER"}
Variants == {"standard", "sticky", "combo"}

\* the platformsConfig props of the model: none, one flag, or all six flags
PlatformsConfigs ==
  {NoPlatformsConfig,
   [given |-> {"email"}, v |-> [DefaultPlatforms EXCEPT !.email = TRUE]],
   [given |-> {"x"}, v |-> [DefaultPlatforms EXCEPT !.x = FALSE]],
   [given |-> {"nativeTools"}, v |-> [DefaultPlatforms EXCEPT !.nativeTools = FALSE]],
   [given |-> PlatformKeys, v |-> [DefaultPlatforms EXCEPT !.email = TRUE]],
   [given |-> PlatformKeys, v |-> [k \in PlatformKeys |-> FALSE]]}

\* const isMobileOrTablet = screenType === "MOBILE" || screenType === "TABLET"
isMobileOrTablet == screenType = "MOBILE" \/ screenType = "TABLET"

\* variant: the hook's canShare is not consulted
componentCanShareLoadedOnly == imagesLoaded

\* const canShare = originalCanShare && imagesLoaded  (the component's own canShare)
componentCanShare == canShare /\ imagesLoaded

\* variant: tablets are not counted
showOnlyNativeButtonMobileOnly == isTouch /\ screenType = "MOBILE" /\ componentCanShare

\* const showOnlyNativeButton = isTouch && isMobileOrTablet && canShare
showOnlyNativeButton == isTouch /\ isMobileOrTablet /\ componentCanShare

\* imgUrls && imgUrls.length > 0
HasImages == imageUrls.def /\ Len(imageUrls.v) > 0

\* renderSocialButtons of SocialShare: the buttons of the <ul>, in order, by aria-label
renderSocialButtons ==
  <<"Share on X", "Share on Facebook">>
  \o (IF HasImages THEN <<"Share on Pinterest">> ELSE <<>>)
  \o <<"Share on LinkedIn", "Share via Email">>
  \o (IF componentCanShare /\ ~isTouch THEN <<"Share with System">> ELSE <<>>)

\* renderNativeShareButton of SocialShare
renderNativeShareButton == <<"Share">>

\* the <section> of the inline bar; nothing for the sticky variant
InlineBar ==
  IF variant = "standard" \/ variant = "combo"
  THEN IF showOnlyNativeButton THEN renderNativeShareButton ELSE renderSocialButtons
  ELSE <<>>

\* StickyShareBar: const showOnlyNativeButton = isTouch && canShare
stickyShowOnlyNativeButton == isTouch /\ componentCanShare

\* the <ul> of the sticky bar; nothing for the standard variant
StickyBar ==
  IF variant = "sticky" \/ variant = "combo"
  THEN IF stickyShowOnlyNativeButton THEN renderNativeShareButton ELSE renderSocialButtons
  ELSE <<>>

(***************************************************************************)
(* The SocialShare component with platform flags (the second               *)
(* implementation of the repository): what it renders.  It has no preload  *)
(* effect and uses the hook's canShare as it is.                           *)
(***************************************************************************)
\* const platforms = { x: true, ..., email: false, nativeTools: true, ...platformsConfig }
platforms ==
  [k \in PlatformKeys |->
     IF k \in platformsConfig.given THEN platformsConfig.v[k] ELSE DefaultPlatforms[k]]

\* const showOnlyNativeButton = isTouch && isMobileOrTablet && canShare && platforms.nativeTools
showOnlyNativeButtonWithPlatforms ==
  isTouch /\ isMobileOrTablet /\ canShare /\ platforms.nativeTools

\* renderSocialButtons: every button behind its flag
renderSocialButtonsWithPlatforms ==
  (IF platforms.x THEN <<"Share on X">> ELSE <<>>)
  \o (IF platforms.facebook THEN <<"Share on Facebook">> ELSE <<>>)
  \o (IF platforms.pinterest /\ HasImages THEN <<"Share on Pinterest">> ELSE <<>>)
  \o (IF platforms.linkedIn THEN <<"Share on LinkedIn">> ELSE <<>>)
  \o (IF platforms.email THEN <<"Share via Email">> ELSE <<>>)
  \o (IF platforms.nativeTools /\ canShare /\ ~isTouch
      THEN <<"Share with System">> ELSE <<>>)

InlineBarWithPlatforms ==
  IF variant = "standard" \/ variant = "combo"
  THEN IF showOnlyNativeButtonWithPlatforms
       THEN renderNativeShareButton ELSE renderSocialButtonsWithPlatforms
  ELSE <<>>

\* StickyShareBar: const showOnlyNativeButton = isTouch && canShare && platforms.nativeTools
stickyShowOnlyNativeButtonWithPlatforms == isTouch /\ canShare /\ platforms.nativeTools

StickyBarWithPlatforms ==
  IF variant = "sticky" \/ variant = "combo"
  THEN IF stickyShowOnlyNativeButtonWithPlatforms
       THEN renderNativeShareButton ELSE renderSocialButtonsWithPlatforms
  ELSE <<>>

(***************************************************************************)
(* The SocialShare component: its preload effect                           *)
(***************************************************************************)
\* the body of the effect on [imgUrls]: start a loadImages run, or
\* setImagesLoaded(true) right away when there is no image
PreloadEffect(urls, loaded, runs) ==
  IF urls.def /\ Len(urls.v) > 0
  THEN [loaded |-> loaded,
        runs |-> Append(runs, [left |-> Len(urls.v), isMounted |-> TRUE, finished |-> FALSE])]
  ELSE [loaded |-> TRUE, runs |-> runs]

\* return () => { isMounted = false } of the latest run, if the latest effect started one
PreloadCleanup(urls, runs) ==
  IF urls.def /\ Len(urls.v) > 0
  THEN [runs EXCEPT ![Len(runs)].isMounted = FALSE]
  ELSE runs

UIInit ==
  /\ HookInit
  /\ isTouch \in BOOLEAN
  /\ screenType \in ScreenTypes
  /\ variant \in Variants
  /\ platformsConfig \in PlatformsConfigs
  /\ imagesLoaded = FALSE
  /\ preloads = <<>>
  /\ NoImagesParam
  /\ NoAcquisition
  /\ NoStickyBars

\* the effects of the first render: the hook's and the preload effect
UIMount ==
  /\ MountEffects
  /\ LET e == PreloadEffect(imageUrls, imagesLoaded, preloads)
     IN  imagesLoaded' = e.loaded /\ preloads' = e.runs
  /\ UNCHANGED <<isTouch, screenType, variant, platformsConfig>>

\* the parent re-renders SocialShare with a new imgUrls array
UIRerender(newUrls) ==
  /\ Rerender(attachImages, newUrls)
  /\ LET e == PreloadEffect(newUrls, imagesLoaded, PreloadCleanup(imageUrls, preloads))
     IN  imagesLoaded' = e.loaded /\ preloads' = e.runs
  /\ UNCHANGED <<isTouch, screenType, variant, platformsConfig>>

\* one image of a run fires onload or onerror
PreloadSettle(r) ==
  /\ r \in 1..Len(preloads)
  /\ preloads[r].left > 0
  /\ preloads' = [preloads EXCEPT ![r].left = @ - 1]
  /\ UNCHANGED <<isTouch, screenType, variant, platformsConfig, imagesLoaded>>
  /\ UNCHANGED hookVars

\* after Promise.all: if (isMounted) setImagesLoaded(true)
PreloadFinish(r) ==
  /\ r \in 1..Len(preloads)
  /\ preloads[r].left = 0
  /\ ~preloads[r].finished
  /\ preloads' = [preloads EXCEPT ![r].finished = TRUE]
  /\ imagesLoaded' = IF preloads[r].isMounted THEN TRUE ELSE imagesLoaded
  /\ UNCHANGED <<isTouch, screenType, variant, platformsConfig>>
  /\ UNCHANGED hookVars

\* useScreen / useIsTouchDevice report a change (resize, input device)
DeviceChange(touch, screen) ==
  /\ phase = "mounted"
  /\ <<touch, screen>> # <<isTouch, screenType>>
  /\ isTouch' = touch
  /\ screenType' = screen
  /\ UNCHANGED <<variant, platformsConfig, imagesLoaded, preloads>>
  /\ UNCHANGED hookVars

\* The conversion runs of the hook have no influence on what the component
\* renders; this specification leaves their progress out.
UINext ==
  \/ UIMount /\ UNCHANGED <<paramsImages, acq, portal>>
  \/ \E u \in ImageUrlsValues : UIRerender(u) /\ UNCHANGED <<paramsImages, acq, portal>>
  \/ \E r \in 1..Len(preloads) : PreloadSettle(r) /\ UNCHANGED <<paramsImages, acq, portal>>
  \/ \E r \in 1..Len(preloads) : PreloadFinish(r) /\ UNCHANGED <<paramsImages, acq, portal>>
  \/ \E touch \in BOOLEAN, screen \in ScreenTypes :
        DeviceChange(touch, screen) /\ UNCHANGED <<paramsImages, acq, portal>>

UISpec == UIInit /\ [][UINext]_vars

(***************************************************************************)
(* Properties of the hook                                                  *)
(***************************************************************************)
\* the call share() has just added to calls
NewCall == calls'[Len(calls')]

\* C1 (attachment fallback): a share() call with attachments enabled and at
\* least one image that yields a File, for which navigator.canShare refuses
\* the payload with files and accepts the payload without them, invokes
\* navigator.share once, with the payload without files; when that
\* invocation resolves the call is over and error is left as it was (null
\* when nothing failed before).
AttachmentFallback ==
  [][ /\ ( /\ nav.share /\ nav.canShare
           /\ attachImages
           /\ Len(FilesOf(base64Images)) > 0
           /\ ShareCall("false", "true") )
         => /\ calls' = Append(calls, [pc |-> "awaiting", tier |-> "basic",
                                       built |-> Len(FilesOf(base64Images)),
                                       files |-> <<>>])
            /\ error' = error
      /\ \A c \in 1..Len(calls) :
           ( /\ calls[c].pc = "awaiting" /\ calls[c].tier = "basic"
             /\ calls[c].built > 0
             /\ ShareSettle(c, "resolve") )
           => /\ error' = error
              /\ calls'[c].pc = "done"
              /\ lastCall'.invoked = 1 /\ lastCall'.files = <<>> ]_vars

AttachmentFallbackReached ==
  /\ nav.canShare /\ attachImages
  /\ lastCall.tier = "basic" /\ lastCall.built > 0
  /\ lastCall.invoked = 1 /\ lastCall.outcome = "resolve"
  /\ error = Null

\* C2 (cancellation is not an error): when navigator.share rejects with an
\* AbortError, whichever payload it was given, the call ends normally and
\* error keeps the value it had before.
CancellationKeepsError ==
  [][ \A c \in 1..Len(calls) :
        ShareSettle(c, AbortErr.message)
        => /\ error' = error
           /\ calls'[c].pc = "done" ]_vars

\* a call with files was cancelled after an earlier call had failed
CancellationReached ==
  /\ lastCall.outcome = AbortErr.message
  /\ lastCall.tier = "files" /\ Len(lastCall.files) > 0
  /\ error \notin {Null, AbortErr.message}

\* a run is stale once an input change or the unmount has superseded it
Stale(t) == t # curTask \/ phase = "unmounted"

\* C3 (stale-request guard): a conversion run superseded by an input change
\* or by the unmount never writes base64Images, whether it finishes before
\* or after the run that replaced it; the current run writes its own results.
StaleRequestGuard ==
  /\ [](\A t \in 1..Len(tasks) : Stale(t) => tasks[t].cancelled)
  /\ [][ \A t \in 1..Len(tasks) :
           Commit(t)
           => IF Stale(t)
              THEN base64Images' = base64Images
              ELSE base64Images' = FilterBoolean(Converted(tasks[t])) ]_vars

\* the superseded run has finished without writing, the run that replaced
\* it has written its images
StaleRequestDiscarded ==
  /\ curTask # 0 /\ tasks[curTask].wrote /\ Len(base64Images) > 0
  /\ \E t \in 1..Len(tasks) :
       t # curTask /\ tasks[t].committed /\ ~tasks[t].wrote

\* the sources of a list of images or files
Srcs(list) == [i \in 1..Len(list) |-> list[i].src]

\* a is b with some elements left out, the order kept
IsSubsequence(a, b) ==
  \E f \in [1..Len(a) -> 1..Len(b)] :
    /\ \A i \in 1..Len(a) : a[i] = b[f[i]]
    /\ \A i \in 1..Len(a), j \in 1..Len(a) : i < j => f[i] < f[j]

\* C4 (order preservation): the base64Images a run commits is the
\* subsequence of imageUrls whose conversion succeeded, in the order of
\* imageUrls, and the files of a share payload keep the order of base64Images.
OrderPreservation ==
  [][ /\ \A t \in 1..Len(tasks) :
           (Commit(t) /\ ~Stale(t))
           => LET conv == Converted(tasks[t])
              IN  /\ Len(conv) = Len(imageUrls.v)
                  /\ \A i \in 1..Len(conv) : conv[i].src = imageUrls.v[i]
                  /\ base64Images' = FilterBoolean(conv)
      /\ (Len(calls') > Len(calls) /\ NewCall.pc = "awaiting")
         => IsSubsequence(Srcs(NewCall.files), Srcs(base64Images)) ]_vars

CapabilityDetection ==
  /\ [](canShare = (nav.share /\ phase # "rendered"))
  /\ [][phase # "rendered" => canShare' = canShare]_vars

CapabilityDetected ==
  canShare /\ nav.share /\ ~nav.canShare /\ renders > 0 /\ Len(calls) > 0

\* C10 (failure capture): share() never rejects: a failure inside it ends
\* the call and sets error to the failure's message, or to "Share failed"
\* when it has none; an image from which no File can be built is left out
\* and is no failure.
FailureCapture ==
  [][ /\ (~nav.share /\ ~nav.canShare
          /\ \E csF \in CanShareAnswers, csB \in CanShareAnswers : ShareCall(csF, csB))
         => (error' = UnsupportedMsg /\ NewCall.pc = "done")
      /\ (nav.canShare /\ Len(FilesOf(base64Images)) = 0
          /\ \E csF \in CanShareAnswers : ShareCall(csF, "throw"))
         => (error' = CanShareThrowMsg /\ NewCall.pc = "done")
      /\ (nav.canShare /\ attachImages /\ Len(FilesOf(base64Images)) > 0
          /\ \E csB \in CanShareAnswers : ShareCall("throw", csB))
         => (error' = CanShareThrowMsg /\ NewCall.pc = "done")
      /\ \A c \in 1..Len(calls) :
           (ShareSettle(c, PlatformErr.message) /\ phase # "unmounted")
           => (error' = PlatformErr.message /\ calls'[c].pc = "done")
      /\ \A c \in 1..Len(calls) :
           (ShareSettle(c, "no message") /\ phase # "unmounted")
           => (error' = DefaultMsg /\ calls'[c].pc = "done")
      /\ (nav.share /\ attachImages
          /\ Len(base64Images) > 0 /\ Len(FilesOf(base64Images)) = 0
          /\ ShareCall("true", "true"))
         => (error' = error /\ NewCall.pc = "awaiting" /\ NewCall.files = <<>>) ]_vars

\* navigator.share has rejected with an error that carries no message
FailureCaptured ==
  /\ lastCall.invoked = 1 /\ lastCall.outcome = "no message"
  /\ error = DefaultMsg /\ phase = "mounted"

(***************************************************************************)
(* Properties of the component                                             *)
(***************************************************************************)
Has(bar, label) == \E i \in 1..Len(bar) : bar[i] = label

\* C7 (only-native selection): on a touch device with a MOBILE or TABLET
\* screen, with native share available to the component and the native
\* affordance enabled, the inline bar is the native share button alone,
\* whatever the platform flags and the images.  Native share is available
\* to the component of core/social-share.tsx when its own canShare holds
\* (the hook's canShare and imagesLoaded), to the component with platform
\* flags when the hook's canShare holds.
OnlyNativeSelection ==
  /\ ( /\ isTouch /\ isMobileOrTablet /\ variant # "sticky"
       /\ componentCanShare /\ platforms.nativeTools )
     => InlineBar = <<"Share">>
  /\ ( /\ isTouch /\ isMobileOrTablet /\ variant # "sticky"
       /\ canShare /\ platforms.nativeTools )
     => InlineBarWithPlatforms = <<"Share">>

\* a touch tablet, images supplied and loaded, every flag given, email on
OnlyNativeSelected ==
  /\ isTouch /\ screenType = "TABLET" /\ variant = "standard"
  /\ canShare /\ imagesLoaded /\ HasImages
  /\ platformsConfig.given = PlatformKeys /\ platforms.email /\ platforms.nativeTools
  /\ InlineBar = <<"Share">> /\ InlineBarWithPlatforms = <<"Share">>

\* C8 (desktop defaults): without touch, on a DESKTOP screen, with native
\* share available, no platformsConfig and no image, the inline bar is X,
\* Facebook, LinkedIn and then the native share button: no Pinterest, no Email.
DesktopDefaults ==
  ( /\ ~isTouch /\ screenType = "DESKTOP" /\ variant # "sticky"
    /\ canShare /\ imagesLoaded
    /\ platformsConfig = NoPlatformsConfig /\ ~HasImages )
  => /\ InlineBar = <<"Share on X", "Share on Facebook", "Share on LinkedIn",
                      "Share with System">>
     /\ InlineBarWithPlatforms = <<"Share on X", "Share on Facebook",
                                   "Share on LinkedIn", "Share with System">>

\* C9 (no native entry point): when navigator.share is not a function,
\* canShare is false and no bar has a native share button, neither the
\* single one nor the trailing one, whatever the device, the screen and
\* the platform flags.
NoNativeWithoutEntryPoint ==
  ~nav.share
  => /\ ~canShare
     /\ \A bar \in {InlineBar, StickyBar, InlineBarWithPlatforms, StickyBarWithPlatforms} :
          ~Has(bar, "Share") /\ ~Has(bar, "Share with System")

\* mounted on a touch phone or tablet without navigator.share, preload done
NoEntryPointMounted ==
  /\ ~nav.share /\ nav.canShare /\ phase = "mounted" /\ imagesLoaded
  /\ isTouch /\ isMobileOrTablet /\ platforms.nativeTools /\ variant = "combo"
  /\ Len(InlineBar) > 1 /\ Len(StickyBarWithPlatforms) > 1

(***************************************************************************)
(* Properties of share(): which invocation it reaches                      *)
(***************************************************************************)
\* C11 (bare invocation): navigator.share is invoked without a positive
\* navigator.canShare answer only when navigator.canShare does not exist;
\* when it exists and answers false for the payload without files,
\* navigator.share is not invoked and the call ends with the Unsupported
\* message in error.
BareOnlyWithoutQuery ==
  [][ /\ ( /\ Len(calls') > Len(calls)
           /\ NewCall.pc = "awaiting" /\ NewCall.tier = "bare" )
         => ~nav.canShare
      /\ (nav.canShare /\ ShareCall("false", "false"))
         => (NewCall.pc = "done" /\ error' = UnsupportedMsg) ]_vars

(***************************************************************************)
(* The hook called with params.images                                      *)
(***************************************************************************)
\* base64 strings a caller has converted itself, tagged with where they come from
PreImage1 == [s |-> DataUrlOk, src |-> <<"pre1">>]
PreImage2 == [s |-> DataUrlOk, src |-> <<"pre2">>]
PreImages == {<<PreImage1>>, <<PreImage1, PreImage2>>}

\* first render with params.images given and imageUrls absent or empty
PreconvertedInit ==
  /\ HookInit
  /\ ~imageUrls.def \/ Len(imageUrls.v) = 0
  /\ NoComponent
  /\ paramsImages \in PreImages
  /\ NoAcquisition
  /\ NoStickyBars

PreconvertedSpec == PreconvertedInit /\ [][Next]_vars

\* C12 (preconverted images): with attachImages true, imageUrls absent or
\* empty and params.images non-empty, share() builds its files from the
\* entries of params.images, in order, and no image is fetched.
PreconvertedImagesAttached ==
  [][ ( /\ attachImages /\ Len(paramsImages) > 0
        /\ ~imageUrls.def \/ Len(imageUrls.v) = 0
        /\ nav.share /\ nav.canShare
        /\ ShareCall("true", "true") )
      => /\ NewCall.pc = "awaiting"
         /\ Srcs(NewCall.files) = Srcs(paramsImages)
         /\ fetches' = fetches ]_vars

\* the URLs the current inputs ask to convert
CurrentUrls ==
  IF attachmentsEnabled(attachImages)
  THEN {Split(imageUrlsKey(imageUrls))[i] : i \in 1..Len(Split(imageUrlsKey(imageUrls)))}
  ELSE {}

\* C13 (cache freshness): base64Images never holds an entry converted for
\* inputs that have since changed, also while the new conversion is in
\* flight, and a share() issued after the change attaches no image of the
\* superseded request.
CacheFreshness ==
  /\ [](\A i \in 1..Len(base64Images) : base64Images[i].src \in CurrentUrls)
  /\ [][ (Len(calls') > Len(calls) /\ NewCall.pc = "awaiting")
         => \A i \in 1..Len(NewCall.files) : NewCall.files[i].src \in CurrentUrls ]_vars

\* navigator.share calls whose promise has not settled
InFlight == {c \in 1..Len(calls) : calls[c].pc = "awaiting"}

\* C14 (single flight): at most one navigator.share call is awaiting its
\* resolution at any time, and a share() triggered while one is awaiting
\* does not invoke navigator.share again.
SingleFlight ==
  /\ [](Cardinality(InFlight) <= 1)
  /\ [][ (InFlight # {} /\ Len(calls') > Len(calls)) => NewCall.pc = "done" ]_vars

(***************************************************************************)
(* One image on its own: fetchBlob(url) called directly, or the image      *)
(* taken through urlToBase64, setBase64Images(converted.filter(Boolean))   *)
(* and the files of share(), with the behaviour of the network fixed at    *)
(* the start.                                                              *)
(***************************************************************************)
UrlS3 == <<"S3", "a">>
AcqUrls == {UrlA, UrlS3}

AcqInit ==
  /\ HookInit
  /\ NoComponent
  /\ NoImagesParam
  /\ \E u \in AcqUrls, n \in NetOutcomes : acq = [pc |-> "start", url |-> u, net |-> n]
  /\ NoStickyBars

\* await fetchBlob(url)
AcqFetchBlob ==
  /\ acq.pc = "start"
  /\ acq' = [pc |-> "fetched", url |-> acq.url, net |-> acq.net,
             blob |-> fetchBlob(acq.url, acq.net)]

\* await urlToBase64(url)
AcqUrlToBase64 ==
  /\ acq.pc = "start"
  /\ acq' = [pc |-> "converted", url |-> acq.url, net |-> acq.net,
             data |-> urlToBase64(acq.url, acq.net)]

\* setBase64Images(converted.filter(Boolean))
AcqCommit ==
  /\ acq.pc = "converted"
  /\ acq' = [pc |-> "committed", url |-> acq.url, net |-> acq.net, data |-> acq.data,
             images |-> IF acq.data.rejected THEN <<>>
                        ELSE FilterBoolean(<<[s |-> acq.data.s, src |-> acq.data.src]>>)]

\* the files share() builds from base64Images
AcqFiles ==
  /\ acq.pc = "committed"
  /\ acq' = [pc |-> "built", url |-> acq.url, net |-> acq.net, data |-> acq.data,
             images |-> acq.images, files |-> FilesOf(acq.images)]

AcqNext ==
  \/ AcqFetchBlob /\ UNCHANGED <<hookVars, uiVars, paramsImages, portal>>
  \/ AcqUrlToBase64 /\ UNCHANGED <<hookVars, uiVars, paramsImages, portal>>
  \/ AcqCommit /\ UNCHANGED <<hookVars, uiVars, paramsImages, portal>>
  \/ AcqFiles /\ UNCHANGED <<hookVars, uiVars, paramsImages, portal>>

AcqSpec == AcqInit /\ [][AcqNext]_vars

\* the blob fetchBlob resolves with in this run is empty
EmptyBlobObtained ==
  /\ acq.pc \in {"converted", "committed", "built"}
  /\ ~fetchBlob(acq.url, acq.net).rejected
  /\ acq.net.size = "zero"

\* C15 (empty blob): when fetchBlob resolves with a zero-byte blob, the
\* result of urlToBase64 is the empty string, whatever the reader would
\* make of the blob, and the URL adds no entry to base64Images and no file.
EmptyBlob ==
  EmptyBlobObtained =>
    /\ acq.data.s = <<>>
    /\ acq.pc \in {"committed", "built"} => acq.images = <<>>
    /\ acq.pc = "built" => acq.files = <<>>

EmptyBlobShared ==
  /\ EmptyBlobObtained
  /\ acq.pc = "built"
  /\ acq.net.reader = "ok"
  /\ acq.files = <<>>

\* C16 (acquisition failures stay local): the promise of urlToBase64 never
\* rejects, a failed image comes back as the empty string; the conversion
\* steps leave the error field alone; the run commits every image that was
\* converted, whatever happened to the others; and share() still invokes
\* navigator.share when navigator.canShare does not throw.
AcquisitionFailuresLocal ==
  [][ /\ \A t \in 1..Len(tasks) : \A i \in 1..Len(tasks[t].res) :
           \A val \in UrlToBase64Results(tasks[t].urls[i]) :
             ConvertOne(t, i, val) => (~val.rejected /\ error' = error)
      /\ \A t \in 1..Len(tasks) :
           Commit(t)
           => /\ error' = error
              /\ ~tasks[t].cancelled
                 => base64Images' = FilterBoolean(Converted(tasks[t]))
      /\ \A csF \in {"true", "false"}, csB \in {"true", "false"} :
           (nav.share /\ ShareCall(csF, csB)) => NewCall.pc = "awaiting" ]_vars

\* a request for two images has committed one of them, the other having
\* failed; no error is set and a share of the one file is awaiting
AcquisitionFailureSurvived ==
  /\ phase = "mounted"
  /\ curTask > 0 /\ tasks[curTask].wrote
  /\ Len(Split(imageUrlsKey(imageUrls))) = 2
  /\ Len(base64Images) = 1
  /\ error = Null
  /\ \E c \in 1..Len(calls) : calls[c].pc = "awaiting" /\ Len(calls[c].files) = 1

\* the URL-based buttons of a bar: everything but the native share buttons
UrlButtons(bar) == SelectSeq(bar, LAMBDA b : b \notin {"Share", "Share with System"})

\* the URL-based buttons the flags ask for
EnabledUrlButtons ==
  (IF platforms.x THEN <<"Share on X">> ELSE <<>>)
  \o (IF platforms.facebook THEN <<"Share on Facebook">> ELSE <<>>)
  \o (IF platforms.pinterest /\ HasImages THEN <<"Share on Pinterest">> ELSE <<>>)
  \o (IF platforms.linkedIn THEN <<"Share on LinkedIn">> ELSE <<>>)
  \o (IF platforms.email THEN <<"Share via Email">> ELSE <<>>)

NoPlatformEnabled == \A k \in PlatformKeys \ {"nativeTools"} : ~platforms[k]

\* C17 (platform flags): when the only-native rule does not apply, the
\* URL-based buttons of the inline bar are exactly the platforms whose flag
\* is true (by default X, Facebook, Pinterest, LinkedIn; not Email),
\* Pinterest only with an image; with every platform disabled and native
\* share unavailable or disabled the bar is empty.
PlatformFlags ==
  variant # "sticky" =>
    /\ ~showOnlyNativeButton => UrlButtons(InlineBar) = EnabledUrlButtons
    /\ ~showOnlyNativeButtonWithPlatforms
       => UrlButtons(InlineBarWithPlatforms) = EnabledUrlButtons
    /\ (NoPlatformEnabled /\ (~canShare \/ ~platforms.nativeTools))
       => (InlineBar = <<>> /\ InlineBarWithPlatforms = <<>>)

\* a bar that is URL-based buttons followed by one native share button
SocialThenNative(bar) ==
  /\ Len(bar) > 0
  /\ bar[Len(bar)] = "Share with System"
  /\ Len(UrlButtons(bar)) = Len(bar) - 1

HasNative(bar) == Has(bar, "Share") \/ Has(bar, "Share with System")

\* C18 (desktop with Web Share API): on a DESKTOP screen with native share
\* available and enabled, the inline bar is the social buttons followed by
\* a native share button, with or without touch; and whenever native share
\* is available and enabled, the bar that is rendered has a native share
\* button.
DesktopNative ==
  /\ ( /\ screenType = "DESKTOP" /\ variant # "sticky"
       /\ componentCanShare /\ platforms.nativeTools )
     => SocialThenNative(InlineBar)
  /\ ( /\ screenType = "DESKTOP" /\ variant # "sticky"
       /\ canShare /\ platforms.nativeTools )
     => SocialThenNative(InlineBarWithPlatforms)
  /\ (componentCanShare /\ platforms.nativeTools)
     => /\ variant # "sticky" => HasNative(InlineBar)
        /\ variant # "standard" => HasNative(StickyBar)
  /\ (canShare /\ platforms.nativeTools)
     => /\ variant # "sticky" => HasNative(InlineBarWithPlatforms)
        /\ variant # "standard" => HasNative(StickyBarWithPlatforms)

\* the first attempt of fetchBlob fails: its fetch throws, the proxy answers
\* outside 2xx, or the body of its response cannot be read
FirstAttemptFails(url, net) ==
  \/ net.first \in {"throw", "blobfail"}
  \/ isAllowedS3Url(url) /\ net.first = "notok"

\* the fallback fails: its fetch throws or the body cannot be read
FallbackFails(net) == net.fallback \in {"throw", "blobfail"}

\* C19 (fetchBlob tiering): the first request is the proxy POST exactly for
\* an allow-listed url, a direct no-cors fetch otherwise; the plain
\* fetch(url) is issued after every failure of the first attempt and only
\* then; at most two requests are issued.
FetchBlobTiering ==
  acq.pc = "fetched" =>
    LET reqs == acq.blob.requests
    IN  /\ Len(reqs) \in {1, 2}
        /\ reqs[1] = (IF isAllowedS3Url(acq.url) THEN "proxy" ELSE "direct")
        /\ Len(reqs) = 2 <=> FirstAttemptFails(acq.url, acq.net)
        /\ Len(reqs) = 2 => reqs[2] = "plain"

\* C20 (fetchBlob error propagation): when the first attempt fails and the
\* fallback is issued and fails too, fetchBlob rejects with the error of the
\* first attempt, never with the fallback's; when the fallback succeeds,
\* fetchBlob resolves with the fallback's blob.
FetchBlobErrorPropagation ==
  (acq.pc = "fetched" /\ Len(acq.blob.requests) = 2) =>
    IF FallbackFails(acq.net)
    THEN acq.blob.rejected /\ acq.blob.error = "first"
    ELSE ~acq.blob.rejected /\ acq.blob.from = "fallback"

(***************************************************************************)
(* dataURLtoFile and the files of share() on strings of every shape        *)
(***************************************************************************)
\* "data:image/jpeg;base64" : no comma, arr[1] is undefined
DataUrlNoBody == <<"data:", "image/jpeg", ";", "base64">>
\* "data:;base64,BODY" : the MIME type is the empty string
DataUrlEmptyMime == <<"data:", ";", "base64", ",", "BODY">>
\* a string that is not a data URL
NotADataUrl == <<"blob:", "x">>

DataStrings ==
  {[s |-> <<>>, src |-> <<"empty">>],
   [s |-> DataUrlOk, src |-> <<"ok">>],
   [s |-> DataUrlNoMime, src |-> <<"nomime">>],
   [s |-> DataUrlBadB64, src |-> <<"badb64">>],
   [s |-> DataUrlNoBody, src |-> <<"nobody">>],
   [s |-> DataUrlEmptyMime, src |-> <<"emptymime">>],
   [s |-> NotADataUrl, src |-> <<"nodata">>]}

MaxImages == 2

FileInit ==
  /\ HookInit
  /\ NoComponent
  /\ NoImagesParam
  /\ \E n \in 1..MaxImages : \E l \in [1..n -> DataStrings] :
       acq = [pc |-> "start", images |-> l]
  /\ NoStickyBars

\* dataURLtoFile(images[i]) called on its own
FileConvert(i) ==
  /\ acq.pc = "start"
  /\ i \in 1..Len(acq.images)
  /\ acq' = [pc |-> "converted", images |-> acq.images, input |-> acq.images[i],
             file |-> dataURLtoFile(acq.images[i])]

\* share() with base64Images holding the non-empty strings of the list
FileShare(csF, csB) ==
  /\ acq.pc = "start"
  /\ acq' = [pc |-> "shared", images |-> acq.images, csF |-> csF, csB |-> csB,
             attempt |-> ShareAttempt(attachmentsEnabled(attachImages),
                                      FilterBoolean(acq.images), csF, csB)]

FileNext ==
  \/ \E i \in 1..MaxImages : FileConvert(i) /\ UNCHANGED <<hookVars, uiVars, paramsImages, portal>>
  \/ \E csF \in CanShareAnswers, csB \in CanShareAnswers :
       FileShare(csF, csB) /\ UNCHANGED <<hookVars, uiVars, paramsImages, portal>>

FileSpec == FileInit /\ [][FileNext]_vars

\* the inputs dataURLtoFile has to refuse
Unconvertible(d) ==
  \/ Len(d.s) = 0
  \/ Len(MimeOf(Split(d.s)[1])) = 0
  \/ AtobThrows(Split(d.s))

\* C21 (unconvertible data URLs): dataURLtoFile returns undefined for the
\* empty string, for a header without MIME type and for a body atob
\* rejects; share() leaves such entries out of its files, and when no entry
\* gives a file it does not ask navigator.canShare about files and goes on
\* to the share without files.
UnconvertibleDropped ==
  /\ (acq.pc = "converted" /\ Unconvertible(acq.input)) => acq.file = NoFile
  /\ acq.pc = "shared" =>
       /\ attachImages =>
            acq.attempt.built =
              Len(SelectSeq(acq.images,
                            LAMBDA d : StartsWithData(d) /\ ~Unconvertible(d)))
       /\ acq.attempt.built = 0 =>
            /\ ~acq.attempt.queriedFiles
            /\ acq.attempt.files = <<>>
            /\ acq.attempt.tier = ShareTier("na", IF nav.canShare THEN acq.csB ELSE "na")

\* share() was called with two data URLs, neither convertible, while
\* navigator.canShare would have thrown on files: the basic share is reached
UnconvertibleShared ==
  /\ acq.pc = "shared"
  /\ attachImages /\ nav.share /\ nav.canShare
  /\ Len(acq.images) = 2
  /\ acq.images[1].s = DataUrlNoMime /\ acq.images[2].s = DataUrlBadB64
  /\ acq.csF = "throw" /\ acq.csB = "true"
  /\ acq.attempt.tier = "basic"

\* C22 (value-based re-trigger): a re-render whose imageUrls has the same
\* elements in the same order as before, attachImages unchanged, starts no
\* acquisition and neither cancels nor discards the conversion in flight.
ValueBasedRetrigger ==
  [][ ( /\ renders' = renders + 1
        /\ attachImages' = attachImages
        /\ imageUrls'.def = imageUrls.def /\ imageUrls'.v = imageUrls.v )
      => /\ fetches' = fetches
         /\ tasks' = tasks /\ curTask' = curTask
         /\ base64Images' = base64Images ]_vars

\* after a re-render the first conversion of two URLs is still the current
\* one, in flight and not cancelled, with no further fetch issued
EqualListRerendered ==
  /\ renders = 1 /\ phase = "mounted"
  /\ imageUrls.def /\ Len(imageUrls.v) = 2
  /\ Len(tasks) = 1 /\ curTask = 1
  /\ ~tasks[1].cancelled /\ ~tasks[1].committed
  /\ tasks[1].res[1].done /\ ~tasks[1].res[2].done
  /\ fetches = 2

(***************************************************************************)
(* StickyShareBar: the effect that finds or creates the portal container   *)
(* "sticky-share-portal", and its cleanup.  Several sticky bars can be     *)
(* mounted on one page.                                                    *)
(***************************************************************************)
\* the page may hold an element with id "sticky-share-portal-persistent"
PortalInit ==
  /\ HookInit
  /\ NoComponent
  /\ NoImagesParam
  /\ NoAcquisition
  /\ \E p \in BOOLEAN :
       portal = [attached |-> FALSE, gen |-> 0, persistent |-> p, mounts |-> 0,
                 bars |-> [b \in 1..MaxBars |-> NoBar]]

\* the effect body: getElementById, else createElement and appendChild
StickyMount(b) ==
  /\ ~portal.bars[b].mounted
  /\ portal.mounts < MaxMounts
  /\ LET g == IF portal.attached THEN portal.gen ELSE portal.gen + 1
     IN  portal' = [portal EXCEPT !.attached = TRUE, !.gen = g,
                                  !.mounts = portal.mounts + 1,
                                  !.bars[b] = [mounted |-> TRUE, container |-> g]]

\* the cleanup: the container this bar holds is removed when it still has a
\* parent and the page has no "sticky-share-portal-persistent" element
StickyUnmount(b) ==
  /\ portal.bars[b].mounted
  /\ LET hasParent == portal.attached /\ portal.bars[b].container = portal.gen
     IN  portal' = [portal EXCEPT
                      !.attached = IF hasParent /\ ~portal.persistent
                                   THEN FALSE ELSE portal.attached,
                      !.bars[b] = NoBar]

PortalNext ==
  \/ \E b \in 1..MaxBars : StickyMount(b) /\ UNCHANGED <<hookVars, uiVars, paramsImages, acq>>
  \/ \E b \in 1..MaxBars : StickyUnmount(b) /\ UNCHANGED <<hookVars, uiVars, paramsImages, acq>>

PortalSpec == PortalInit /\ [][PortalNext]_vars

MountedBars == {b \in 1..MaxBars : portal.bars[b].mounted}

\* C23 (portal container lifecycle): while a sticky bar is mounted the
\* container is in the document and every mounted bar renders into it; it
\* is created by a mount only when none exists, and unmounting one of
\* several mounted bars leaves it attached.
PortalLifecycle ==
  /\ [](MountedBars # {} =>
          /\ portal.attached
          /\ \A b \in MountedBars : portal.bars[b].container = portal.gen)
  /\ [][ /\ portal'.gen > portal.gen => ~portal.attached
         /\ (portal.attached /\ ~portal'.attached) => MountedBars' = {} ]_vars

\* C24 (unsupported): when navigator.share is not a function and
\* navigator.canShare, where it exists, refuses the payload, share() calls
\* nothing on the platform, completes, and sets error to the
\* "not supported on this device" message.
UnsupportedReported ==
  [][ (~nav.share /\ ShareCall("false", "false"))
      => /\ NewCall.pc = "done"
         /\ lastCall'.invoked = 0 /\ lastCall'.tier = "none"
         /\ error' = UnsupportedMsg ]_vars

\* a browser with navigator.canShare but without navigator.share: the call
\* has ended with the message
UnsupportedReached ==
  /\ ~nav.share /\ nav.canShare
  /\ Len(calls) = 1 /\ calls[1].pc = "done"
  /\ lastCall.invoked = 0
  /\ lastCall.outcome = UnsupportedMsg
  /\ error = UnsupportedMsg

\* C25 (no retry after a failed invocation): one share() call invokes
\* navigator.share at most once: when the promise of its invocation settles,
\* by resolution, abort or any other rejection, the call is over and no
\* further invocation follows, in particular none without files after a
\* rejected one with files; a call that is over invokes nothing any more.
SingleInvocationPerCall ==
  [][ \A c \in 1..Len(calls) :
        /\ (calls[c].pc = "awaiting" /\ calls'[c] # calls[c])
           => /\ calls'[c] = DoneCall
              /\ Len(calls') = Len(calls)
              /\ lastCall'.invoked = 1 /\ lastCall'.tier = calls[c].tier
        /\ calls[c].pc = "done" => calls'[c].pc = "done" ]_vars

\* the share with files was rejected by the platform; the call is over
FilesShareRejected ==
  /\ Len(calls) = 1 /\ calls[1].pc = "done"
  /\ lastCall.tier = "files" /\ lastCall.invoked = 1
  /\ lastCall.outcome = PlatformMsg
  /\ error = PlatformMsg

\* C26 (sticky bar follows the inline bar): for every touch capability,
\* screen class, native-share availability and flags, the sticky bar is the
\* native button alone exactly when the inline bar of the same component is.
StickyFollowsInline ==
  variant = "combo" =>
    /\ stickyShowOnlyNativeButton <=> showOnlyNativeButton
    /\ StickyBar = renderNativeShareButton <=> InlineBar = renderNativeShareButton
    /\ stickyShowOnlyNativeButtonWithPlatforms <=> showOnlyNativeButtonWithPlatforms
    /\ StickyBarWithPlatforms = renderNativeShareButton
       <=> InlineBarWithPlatforms = renderNativeShareButton

\* every image of the current imgUrls has fired onload or onerror
CurrentPreloadSettled ==
  HasImages => (Len(preloads) > 0 /\ preloads[Len(preloads)].left = 0)

\* C27 (preload gating): the component of core/social-share.tsx offers a
\* native share button, and lets handleNativeShare through to the hook's
\* share(), only when the preload of every image of the current imgUrls has
\* settled, also after imgUrls has changed to a list not yet preloaded.
PreloadGating ==
  /\ componentCanShare => CurrentPreloadSettled
  /\ phase = "mounted" /\ (HasNative(InlineBar) \/ HasNative(StickyBar))
     => CurrentPreloadSettled

\* the conversion of the current imageUrls has not committed
ConversionInFlight == curTask > 0 /\ ~tasks[curTask].committed

\* C28 (share does not wait for the conversion): a share() called while the
\* conversion of the current imageUrls is in flight builds its files from
\* the base64Images of that moment, so from nothing during the first
\* conversion, and invokes navigator.share right away; a conversion that
\* commits later leaves the payload of an invocation already made as it is.
ShareDoesNotWait ==
  [][ /\ \A csF \in {"true", "false"}, csB \in {"true", "false"} :
           (ConversionInFlight /\ nav.share /\ ShareCall(csF, csB))
           => /\ NewCall.pc = "awaiting"
              /\ NewCall.built = Len(FilesOf(base64Images))
              /\ IsSubsequence(Srcs(NewCall.files), Srcs(base64Images))
              /\ base64Images = <<>> => NewCall.files = <<>>
              /\ tasks' = tasks
      /\ \A t \in 1..Len(tasks) : Commit(t) => calls' = calls ]_vars

\* a share made during the first conversion is still awaiting, without
\* files, after that conversion has committed an image
SharedBeforeCommit ==
  /\ renders = 0 /\ attachImages /\ curTask = 1
  /\ tasks[1].wrote /\ Len(FilesOf(base64Images)) > 0
  /\ \E c \in 1..Len(calls) :
       calls[c].pc = "awaiting" /\ calls[c].built = 0 /\ calls[c].files = <<>>

\* C29 (error is sticky): error is null until a share() fails; it is
\* written only by a share() that fails with an error other than
\* AbortError, with that error's message or "Share failed"; once set it is
\* never null again, whatever follows (a share that succeeds, one that is
\* cancelled, new inputs), and only a later failure replaces it.
ErrorNeverCleared ==
  /\ [](Len(calls) = 0 => error = Null)
  /\ [][ /\ error # Null => error' # Null
         /\ error' # error
            => /\ lastCall' # lastCall
               /\ lastCall'.outcome \notin {"resolve", AbortErr.message}
               /\ error' = IF lastCall'.outcome = "no message"
                           THEN DefaultMsg ELSE lastCall'.outcome ]_vars

\* after a failed share, a cancelled one: the message of the failure stays
ErrorKeptAfterAbort ==
  /\ Len(calls) = 2 /\ calls[1].pc = "done" /\ calls[2].pc = "done"
  /\ lastCall.invoked = 1 /\ lastCall.outcome = AbortErr.message
  /\ error = PlatformMsg

\* C30 (key round trip): the URLs a conversion run hands to urlToBase64 are
\* the caller's imageUrls, element for element, also for a URL that
\* contains a comma; and two lists with different elements have different
\* keys, so a re-render that changes the elements starts a new run.
KeyRoundTrip ==
  [][ /\ Len(tasks') > Len(tasks)
         => tasks'[Len(tasks')].urls = imageUrls'.v
      /\ ( /\ renders' = renders + 1
           /\ attachImages /\ attachImages'
           /\ imageUrls.def /\ imageUrls'.def
           /\ imageUrls'.v # imageUrls.v )
         => /\ imageUrlsKey(imageUrls') # imageUrlsKey(imageUrls)
            /\ Len(imageUrls'.v) > 0 => Len(tasks') > Len(tasks) ]_vars

====
